---- MODULE Spec2Model ----
(***************************************************************************)
(* The in-memory task API of main.py / modelo.py as a state machine.       *)
(*                                                                         *)
(* State: the list db_tareas, the counter siguiente_id_tarea and the wall  *)
(* clock read by datetime.now(timezone.utc).  One action per endpoint;     *)
(* each action is the whole handler, request validation by the pydantic    *)
(* models included.  `last` records the last HTTP exchange (the method,    *)
(* the id of the path, the completion fields of the body, the status and   *)
(* the tasks of the response); `creadas` and `eliminadas` are history      *)
(* variables (how many tasks were created, which ids were deleted).        *)
(*                                                                         *)
(* Optional[X] is modelled as a sequence: <<>> is None, <<x>> is x.        *)
(* A datetime is [ts, tzinfo]: ts the instant (for a naive value its wall  *)
(* reading), tzinfo "UTC" or "naive".                                      *)
(***************************************************************************)
EXTENDS Integers, Sequences, FiniteSets, TLC

VARIABLES db_tareas, siguiente_id_tarea, now, last, creadas, eliminadas

vars == <<db_tareas, siguiente_id_tarea, now, last, creadas, eliminadas>>

\* ---------------------------------------------------------------- bounds
\* The clock runs over 0..MaxTime.  At most MaxId tasks are ever created under
\* Spec, and at most MaxIdPeticion under SpecPeticion, whose exchanges also
\* record the completion fields of every update request.
MaxTime == 1
MaxId == 2
MaxIdPeticion == 1

\* ------------------------------------------------------ program constants
TITULO_MIN_LENGTH == 3
TITULO_MAX_LENGTH == 100
DESCRIPCION_MAX_LENGTH == 500
PRIMER_ID == 1
HTTP_200_OK == 200
HTTP_201_CREATED == 201
HTTP_204_NO_CONTENT == 204
HTTP_307_TEMPORARY_REDIRECT == 307
HTTP_404_NOT_FOUND == 404
HTTP_422_UNPROCESSABLE_ENTITY == 422

\* ------------------------------------------------------------ Python values
None == <<>>
Some(v) == <<v>>

\* a and b are Optional values: Python's `a or b` (a datetime is always truthy)
Or(a, b) == IF a # None THEN a ELSE b

\* dict.get(k): the value, or None when the key is missing
Get(d, k) == IF k \in DOMAIN d THEN d[k] ELSE None

datetime(ts, tzinfo) == [ts |-> ts, tzinfo |-> tzinfo]

\* a timestamp taken once, when the module is loaded, instead of per request
datetime_now_al_importar(t) == datetime(0, "UTC")

\* datetime.now(timezone.utc) when the clock reads t
datetime_now(t) == datetime(t, "UTC")

\* v.replace(tzinfo=timezone.utc) when v.tzinfo is None, else v
replace_tzinfo_utc(v) == IF v.tzinfo = "naive" THEN [v EXCEPT !.tzinfo = "UTC"] ELSE v

\* ------------------------------------------------------------------ inputs
X10 == "xxxxxxxxxx"
X100 == X10 \o X10 \o X10 \o X10 \o X10 \o X10 \o X10 \o X10 \o X10 \o X10
TituloLargo == X100 \o "x"
DescripcionLarga == X100 \o X100 \o X100 \o X100 \o X100 \o "x"

\* every instant of the clock as an aware datetime, and one naive datetime
FechasEntrada ==
    {None} \cup { Some(datetime(t, "UTC")) : t \in 0..MaxTime }
           \cup { Some(datetime(0, "naive")) }

TitulosCrear == {None, Some("ab"), Some("abc"), Some(TituloLargo)}
DescripcionesCrear == {None, Some(DescripcionLarga)}

TitulosActualizar == {None, Some("ab"), Some("abc")}
DescripcionesActualizar == {None, Some(DescripcionLarga)}

\* ------------------------------------------------------ modelo.py: TareaBase
titulo_valido(v) ==
    /\ v # None
    /\ Len(v[1]) >= TITULO_MIN_LENGTH
    /\ Len(v[1]) <= TITULO_MAX_LENGTH

descripcion_valida(v) == v = None \/ Len(v[1]) <= DESCRIPCION_MAX_LENGTH

\* ----------------------------------------------------- modelo.py: TareaCrear
\* The bodies sent to POST /tareas/: every proposal with a valid text, and
\* every text with no proposal.
TareaCrearEntradas ==
    { m \in [titulo : TitulosCrear,
             descripcion : DescripcionesCrear,
             fecha_finalizacion_propuesta : FechasEntrada] :
        \/ m.fecha_finalizacion_propuesta = None
        \/ m.titulo = Some("abc") /\ m.descripcion = None }

asegurar_utc_propuesta_finalizacion(m) ==
    IF m.fecha_finalizacion_propuesta # None
       /\ m.fecha_finalizacion_propuesta[1].tzinfo = "naive"
    THEN [m EXCEPT !.fecha_finalizacion_propuesta =
                        Some(replace_tzinfo_utc(m.fecha_finalizacion_propuesta[1]))]
    ELSE m

\* the request body parses as a TareaCrear
TareaCrear_valida(m) == titulo_valido(m.titulo) /\ descripcion_valida(m.descripcion)

\* ------------------------------------------------ modelo.py: TareaActualizar
Campos == {"titulo", "descripcion", "establecer_completada", "nueva_fecha_finalizacion"}

\* A parsed body: the four fields (None by default) and the set of fields the
\* client sent (pydantic's model_fields_set).  The bodies sent to PUT either
\* edit the text (titulo, descripcion) or the completion (establecer_completada,
\* nueva_fecha_finalizacion).
TareaActualizarEntradas ==
    { m \in [titulo : TitulosActualizar,
             descripcion : DescripcionesActualizar,
             establecer_completada : {None, Some(TRUE), Some(FALSE)},
             nueva_fecha_finalizacion : FechasEntrada,
             fields_set : SUBSET Campos] :
        /\ \A c \in Campos \ m.fields_set : m[c] = None
        /\ \/ m.fields_set \in {{"titulo"}, {"descripcion"}}
           \/ m.fields_set \subseteq {"establecer_completada",
                                       "nueva_fecha_finalizacion"} }

\* the flag tested against True instead of False
validar_actualizacion_finalizacion_ok_invertida(m) ==
    ~(m.establecer_completada = Some(TRUE) /\ m.nueva_fecha_finalizacion # None)

\* the ValueError of validar_actualizacion_finalizacion is not raised
validar_actualizacion_finalizacion_ok(m) ==
    ~(m.establecer_completada = Some(FALSE) /\ m.nueva_fecha_finalizacion # None)

\* what validar_actualizacion_finalizacion returns when it does not raise
validar_actualizacion_finalizacion(m) ==
    IF m.nueva_fecha_finalizacion # None
       /\ m.nueva_fecha_finalizacion[1].tzinfo = "naive"
    THEN [m EXCEPT !.nueva_fecha_finalizacion =
                        Some(replace_tzinfo_utc(m.nueva_fecha_finalizacion[1]))]
    ELSE m

\* the request body parses as a TareaActualizar
TareaActualizar_valida(m) ==
    /\ m.titulo = None \/ titulo_valido(m.titulo)
    /\ descripcion_valida(m.descripcion)
    /\ validar_actualizacion_finalizacion_ok(m)

\* tarea_actualizada_datos.model_dump(exclude_unset=True)
model_dump_exclude_unset(m) == [c \in m.fields_set |-> m[c]]

\* ---------------------------------------------------------- modelo.py: Tarea
asegurar_utc_en_entrada(v) ==
    IF v # None /\ v[1].tzinfo = "naive" THEN Some(replace_tzinfo_utc(v[1])) ELSE v

\* the comparison strict: a task finishing at this very instant is not completed
completada_estricta(tarea, t) ==
    IF tarea.fecha_finalizacion = None
    THEN FALSE
    ELSE replace_tzinfo_utc(tarea.fecha_finalizacion[1]).ts < datetime(t, "UTC").ts

\* the computed field, evaluated when the clock reads t
completada(tarea, t) ==
    IF tarea.fecha_finalizacion = None
    THEN FALSE
    ELSE replace_tzinfo_utc(tarea.fecha_finalizacion[1]).ts <= datetime_now(t).ts

\* the ValueError of validar_coherencia_fechas is not raised
validar_coherencia_fechas(tarea) ==
    IF tarea.fecha_finalizacion # None
    THEN ~(replace_tzinfo_utc(tarea.fecha_finalizacion[1]).ts
             < replace_tzinfo_utc(tarea.fecha_creacion).ts)
    ELSE TRUE

\* Tarea(**d) / Tarea.model_validate(d): the fields of the model, validated
\* on entry; keys of d that are no field (completada) are ignored.
Tarea(d) ==
    [id |-> d.id,
     titulo |-> d.titulo,
     descripcion |-> d.descripcion,
     fecha_creacion |-> asegurar_utc_en_entrada(Some(d.fecha_creacion))[1],
     fecha_finalizacion |-> asegurar_utc_en_entrada(d.fecha_finalizacion)]

\* Tarea(**d) raises no ValidationError
Tarea_valida(d) ==
    /\ titulo_valido(d.titulo)
    /\ descripcion_valida(d.descripcion)
    /\ validar_coherencia_fechas(Tarea(d))

\* tarea.model_dump() when the clock reads t: the fields and the computed field
model_dump(tarea, t) ==
    [id |-> tarea.id,
     titulo |-> tarea.titulo,
     descripcion |-> tarea.descripcion,
     fecha_creacion |-> tarea.fecha_creacion,
     fecha_finalizacion |-> tarea.fecha_finalizacion,
     completada |-> completada(tarea, t)]

\* ------------------------------------------------------------ main.py: store
\* position of the first task with this id, 0 when there is none
indice_por_id(id_tarea) ==
    LET coinciden == { i \in 1..Len(db_tareas) : db_tareas[i].id = id_tarea }
    IN  IF coinciden = {}
        THEN 0
        ELSE CHOOSE i \in coinciden : \A j \in coinciden : i <= j

encontrar_tarea_por_id(id_tarea) ==
    LET i == indice_por_id(id_tarea)
    IN  IF i = 0 THEN None ELSE Some(db_tareas[i])

\* the counter left as it is
incrementar_id_olvidado(n) == n

\* siguiente_id_tarea += 1
incrementar_id(n) == n + 1

\* [tarea for tarea in db_tareas if tarea.id != id_tarea]
sin_id(tareas, id_tarea) == SelectSeq(tareas, LAMBDA tarea : tarea.id # id_tarea)

\* the task removed and the validated one appended at the end
reemplazar_al_final(tareas, id_tarea, tarea_validada) ==
    Append(sin_id(tareas, id_tarea), tarea_validada)

\* for i, t in enumerate(db_tareas): if t.id == id_tarea: db_tareas[i] = tarea_validada
reemplazar_por_id(tareas, id_tarea, tarea_validada) ==
    [tareas EXCEPT ![indice_por_id(id_tarea)] = tarea_validada]

\* ------------------------------------------------------------ the exchange
Intercambio(op, id, peticion, status, body) ==
    [op |-> op, id |-> id, peticion |-> peticion, status |-> status, body |-> body]

SinPeticion == [x \in {} |-> None]

Init ==
    /\ db_tareas = <<>>
    /\ siguiente_id_tarea = PRIMER_ID
    /\ now = 0
    /\ last = Intercambio("none", 0, SinPeticion, 0, <<>>)
    /\ creadas = 0
    /\ eliminadas = {}

\* time passes
Tick ==
    /\ now < MaxTime
    /\ now' = now + 1
    /\ UNCHANGED <<db_tareas, siguiente_id_tarea, last, creadas, eliminadas>>

\* GET /
redirigir_a_docs ==
    /\ last' = Intercambio("GET /", 0, SinPeticion, HTTP_307_TEMPORARY_REDIRECT, <<>>)
    /\ UNCHANGED <<db_tareas, siguiente_id_tarea, now, creadas, eliminadas>>

\* POST /tareas/ (the model stops creating once max_id tasks were created)
crear_nueva_tarea(cuerpo, max_id) ==
    LET tarea_para_crear == asegurar_utc_propuesta_finalizacion(cuerpo)
        peticion == [fecha_finalizacion_propuesta |->
                        tarea_para_crear.fecha_finalizacion_propuesta]
        fecha_creacion_actual == datetime_now(now)
        fecha_finalizacion_calculada == tarea_para_crear.fecha_finalizacion_propuesta
        d == [id |-> siguiente_id_tarea,
              titulo |-> tarea_para_crear.titulo,
              descripcion |-> tarea_para_crear.descripcion,
              fecha_creacion |-> fecha_creacion_actual,
              fecha_finalizacion |-> fecha_finalizacion_calculada]
        nueva_tarea == Tarea(d)
        rechazo == /\ last' = Intercambio("POST", 0, peticion,
                                          HTTP_422_UNPROCESSABLE_ENTITY, <<>>)
                   /\ UNCHANGED <<db_tareas, siguiente_id_tarea, now, creadas, eliminadas>>
    IN  IF ~TareaCrear_valida(cuerpo)
        THEN rechazo
        ELSE IF /\ tarea_para_crear.fecha_finalizacion_propuesta # None
                /\ fecha_finalizacion_calculada[1].ts < fecha_creacion_actual.ts
        THEN rechazo
        ELSE IF ~Tarea_valida(d)
        THEN rechazo
        ELSE /\ siguiente_id_tarea <= max_id
             /\ db_tareas' = Append(db_tareas, nueva_tarea)
             /\ siguiente_id_tarea' = incrementar_id(siguiente_id_tarea)
             /\ creadas' = creadas + 1
             /\ last' = Intercambio("POST", 0, peticion, HTTP_201_CREATED,
                                    <<model_dump(nueva_tarea, now)>>)
             /\ UNCHANGED <<now, eliminadas>>

\* GET /tareas/
obtener_todas_las_tareas ==
    /\ last' = Intercambio("GET /tareas/", 0, SinPeticion, HTTP_200_OK,
                           [i \in 1..Len(db_tareas) |-> model_dump(db_tareas[i], now)])
    /\ UNCHANGED <<db_tareas, siguiente_id_tarea, now, creadas, eliminadas>>

\* GET /tareas/{id_tarea}
obtener_tarea_especifica(id_tarea) ==
    LET tarea_encontrada == encontrar_tarea_por_id(id_tarea)
    IN  /\ last' = IF tarea_encontrada = None
                   THEN Intercambio("GET", id_tarea, SinPeticion, HTTP_404_NOT_FOUND, <<>>)
                   ELSE Intercambio("GET", id_tarea, SinPeticion, HTTP_200_OK,
                                    <<model_dump(tarea_encontrada[1], now)>>)
        /\ UNCHANGED <<db_tareas, siguiente_id_tarea, now, creadas, eliminadas>>

\* lines 114-130 of main.py: the fields of update_data applied to the task,
\* when the clock reads t
aplicar_update_data(tarea_existente, update_data, t) ==
    LET t1 == IF "titulo" \in DOMAIN update_data
              THEN [tarea_existente EXCEPT !.titulo = update_data["titulo"]]
              ELSE tarea_existente
        t2 == IF "descripcion" \in DOMAIN update_data
              THEN [t1 EXCEPT !.descripcion = Get(update_data, "descripcion")]
              ELSE t1
    IN  IF "establecer_completada" \in DOMAIN update_data
        THEN IF update_data["establecer_completada"] = Some(TRUE)
             THEN IF t2.fecha_finalizacion = None
                  THEN [t2 EXCEPT !.fecha_finalizacion =
                            Or(Get(update_data, "nueva_fecha_finalizacion"),
                               Some(datetime_now(t)))]
                  ELSE IF "nueva_fecha_finalizacion" \in DOMAIN update_data
                  THEN [t2 EXCEPT !.fecha_finalizacion =
                            Get(update_data, "nueva_fecha_finalizacion")]
                  ELSE t2
             ELSE IF update_data["establecer_completada"] = Some(FALSE)
             THEN [t2 EXCEPT !.fecha_finalizacion = None]
             ELSE t2
        ELSE IF "nueva_fecha_finalizacion" \in DOMAIN update_data
        THEN [t2 EXCEPT !.fecha_finalizacion = Get(update_data, "nueva_fecha_finalizacion")]
        ELSE t2

\* what the exchange records of an update body: the completion fields it sent
PeticionActualizar(m) ==
    [c \in m.fields_set \cap {"establecer_completada", "nueva_fecha_finalizacion"}
        |-> m[c]]

\* PUT /tareas/{id_tarea}; the exchange records the body when traza is TRUE
actualizar_tarea_existente(id_tarea, cuerpo, traza) ==
    LET tarea_actualizada_datos == validar_actualizacion_finalizacion(cuerpo)
        update_data == model_dump_exclude_unset(tarea_actualizada_datos)
        peticion == IF traza THEN PeticionActualizar(tarea_actualizada_datos)
                             ELSE SinPeticion
        \* tarea_existente is the object held by db_tareas: assigning to its
        \* attributes changes the stored task
        tarea_existente ==
            aplicar_update_data(encontrar_tarea_por_id(id_tarea)[1], update_data, now)
        tarea_validada == Tarea(model_dump(tarea_existente, now))
    IN  IF ~TareaActualizar_valida(cuerpo)
        THEN /\ last' = Intercambio("PUT", id_tarea, peticion,
                                    HTTP_422_UNPROCESSABLE_ENTITY, <<>>)
             /\ UNCHANGED <<db_tareas, siguiente_id_tarea, now, creadas, eliminadas>>
        ELSE IF encontrar_tarea_por_id(id_tarea) = None
        THEN /\ last' = Intercambio("PUT", id_tarea, peticion, HTTP_404_NOT_FOUND, <<>>)
             /\ UNCHANGED <<db_tareas, siguiente_id_tarea, now, creadas, eliminadas>>
        ELSE IF Tarea_valida(model_dump(tarea_existente, now))
        THEN /\ db_tareas' = reemplazar_por_id(db_tareas, id_tarea, tarea_validada)
             /\ last' = Intercambio("PUT", id_tarea, peticion, HTTP_200_OK,
                                    <<model_dump(tarea_validada, now)>>)
             /\ UNCHANGED <<siguiente_id_tarea, now, creadas, eliminadas>>
        ELSE /\ db_tareas' = [db_tareas EXCEPT ![indice_por_id(id_tarea)] = tarea_existente]
             /\ last' = Intercambio("PUT", id_tarea, peticion,
                                    HTTP_422_UNPROCESSABLE_ENTITY, <<>>)
             /\ UNCHANGED <<siguiente_id_tarea, now, creadas, eliminadas>>

\* DELETE /tareas/{id_tarea}
eliminar_tarea_existente(id_tarea) ==
    LET tarea_a_eliminar == encontrar_tarea_por_id(id_tarea)
    IN  IF tarea_a_eliminar = None
        THEN /\ last' = Intercambio("DELETE", id_tarea, SinPeticion, HTTP_404_NOT_FOUND, <<>>)
             /\ UNCHANGED <<db_tareas, siguiente_id_tarea, now, creadas, eliminadas>>
        ELSE /\ db_tareas' = sin_id(db_tareas, id_tarea)
             /\ eliminadas' = eliminadas \cup {id_tarea}
             /\ last' = Intercambio("DELETE", id_tarea, SinPeticion, HTTP_204_NO_CONTENT, <<>>)
             /\ UNCHANGED <<siguiente_id_tarea, now, creadas>>

\* ------------------------------------------------------------ the clients
Crear(max_id) ==
    \E cuerpo \in TareaCrearEntradas : crear_nueva_tarea(cuerpo, max_id)
Listar == obtener_todas_las_tareas
Obtener(max_id) ==
    \E id_tarea \in 1..max_id : obtener_tarea_especifica(id_tarea)
Actualizar(max_id, traza) ==
    \E id_tarea \in 1..max_id : \E cuerpo \in TareaActualizarEntradas :
        actualizar_tarea_existente(id_tarea, cuerpo, traza)
Eliminar(max_id) ==
    \E id_tarea \in 1..max_id : eliminar_tarea_existente(id_tarea)

Next ==
    \/ Tick
    \/ redirigir_a_docs
    \/ Crear(MaxId)
    \/ Listar
    \/ Obtener(MaxId)
    \/ Actualizar(MaxId, FALSE)
    \/ Eliminar(MaxId)

Spec == Init /\ [][Next]_vars

NextPeticion ==
    \/ Tick
    \/ redirigir_a_docs
    \/ Crear(MaxIdPeticion)
    \/ Listar
    \/ Obtener(MaxIdPeticion)
    \/ Actualizar(MaxIdPeticion, TRUE)
    \/ Eliminar(MaxIdPeticion)

SpecPeticion == Init /\ [][NextPeticion]_vars

\* ================================================================ properties
CamposTarea == {"id", "titulo", "descripcion", "fecha_creacion", "fecha_finalizacion"}

IdsDe(tareas) == { tareas[i].id : i \in 1..Len(tareas) }

\* the task of a list with this id, None when there is none
BuscarEn(tareas, id) ==
    IF id \in IdsDe(tareas)
    THEN Some(tareas[CHOOSE i \in 1..Len(tareas) : tareas[i].id = id])
    ELSE None

\* a step that handles a request (every step but Tick leaves the clock alone)
EsPeticion == now' = now

\* the completion fields of the last update request
UltimoEstablecer == Get(last.peticion, "establecer_completada")
UltimaNueva == Get(last.peticion, "nueva_fecha_finalizacion")

\* C1: an update that answers 404 or 422 leaves the list as it was, and one
\* that answers 200 has stored the task it returns.
C1_ActualizarTodoONada ==
    [][ (EsPeticion /\ last'.op = "PUT") =>
            IF last'.status = HTTP_200_OK
            THEN Some(Tarea(last'.body[1])) = BuscarEn(db_tareas', last'.id)
            ELSE db_tareas' = db_tareas ]_vars

\* C2: every stored task with a fecha_finalizacion has it at or after its
\* fecha_creacion.
C2_FechasCoherentes ==
    \A i \in 1..Len(db_tareas) :
        db_tareas[i].fecha_finalizacion # None =>
            db_tareas[i].fecha_finalizacion[1].ts >= db_tareas[i].fecha_creacion.ts

\* C3: an update whose body has establecer_completada = false and a
\* nueva_fecha_finalizacion that is not null is answered 422, whatever the id,
\* and changes neither the list nor the counter.
C3_ReabrirConFechaRechazado ==
    [][ ( /\ EsPeticion
          /\ last'.op = "PUT"
          /\ Get(last'.peticion, "establecer_completada") = Some(FALSE)
          /\ Get(last'.peticion, "nueva_fecha_finalizacion") # None )
        => /\ last'.status = HTTP_422_UNPROCESSABLE_ENTITY
           /\ db_tareas' = db_tareas
           /\ siguiente_id_tarea' = siguiente_id_tarea ]_vars

C3_Witness ==
    /\ last.op = "PUT"
    /\ UltimoEstablecer = Some(FALSE)
    /\ UltimaNueva # None
    /\ last.status = HTTP_422_UNPROCESSABLE_ENTITY
    /\ BuscarEn(db_tareas, last.id) # None

\* C4: a creation whose fecha_finalizacion_propuesta is earlier than the clock
\* is answered 422 and changes neither the list nor the counter.
C4_PropuestaPasadaRechazada ==
    [][ ( /\ EsPeticion
          /\ last'.op = "POST"
          /\ last'.peticion.fecha_finalizacion_propuesta # None
          /\ last'.peticion.fecha_finalizacion_propuesta[1].ts < now )
        => /\ last'.status = HTTP_422_UNPROCESSABLE_ENTITY
           /\ last'.body = <<>>
           /\ db_tareas' = db_tareas
           /\ siguiente_id_tarea' = siguiente_id_tarea ]_vars

C4_Witness ==
    /\ last.op = "POST"
    /\ last.status = HTTP_422_UNPROCESSABLE_ENTITY
    /\ last.peticion.fecha_finalizacion_propuesta # None
    /\ last.peticion.fecha_finalizacion_propuesta[1].ts < now
    /\ Len(db_tareas) = 1
    /\ siguiente_id_tarea = 2

\* the counter is 1 plus the number of tasks created; the stored ids are
\* distinct, positive and below the counter; the k-th task created got id k; no
\* stored task has the id of a deleted one
IdsBienAsignados ==
    /\ siguiente_id_tarea = PRIMER_ID + creadas
    /\ \A i \in 1..Len(db_tareas) :
          db_tareas[i].id >= 1 /\ db_tareas[i].id < siguiente_id_tarea
    /\ \A i, j \in 1..Len(db_tareas) : i # j => db_tareas[i].id # db_tareas[j].id
    /\ IdsDe(db_tareas) \cap eliminadas = {}
    /\ (last.op = "POST" /\ last.status = HTTP_201_CREATED) => last.body[1].id = creadas

\* C5: ids come from a counter that starts at 1, grows by one with each task
\* created and by nothing else, and never goes down; the stored ids are
\* distinct, positive and below the counter; the k-th task created got id k;
\* the id of a deleted task is never stored again.
C5_IdsNuncaReutilizados ==
    [][ /\ IdsBienAsignados
        /\ IdsBienAsignados'
        /\ siguiente_id_tarea' >= siguiente_id_tarea
        /\ siguiente_id_tarea' # siguiente_id_tarea =>
              /\ last'.op = "POST"
              /\ last'.status = HTTP_201_CREATED
              /\ siguiente_id_tarea' = siguiente_id_tarea + 1 ]_vars

C5_Witness ==
    /\ 1 \in eliminadas
    /\ creadas = 2
    /\ Len(db_tareas) = 1
    /\ db_tareas[1].id = 2
    /\ last.op = "POST"
    /\ last.status = HTTP_201_CREATED

\* what a response says of a task agrees with the clock reading t
LecturaCorrecta(r, t) ==
    r.completada = (r.fecha_finalizacion # None /\ r.fecha_finalizacion[1].ts <= t)

\* C7: no stored task holds completada; every task of a response has
\* completada equal to (fecha_finalizacion is present and <= the clock); a
\* task created with no proposal has no fecha_finalizacion and reads as not
\* completed; when the clock reaches the fecha_finalizacion of a stored task
\* the list is untouched and the task, which read as not completed, reads as
\* completed.
C7_CompletadaDerivada ==
    [][ /\ \A i \in 1..Len(db_tareas') : DOMAIN db_tareas'[i] = CamposTarea
        /\ EsPeticion =>
              \A k \in 1..Len(last'.body) : LecturaCorrecta(last'.body[k], now')
        /\ ( /\ EsPeticion
             /\ last'.op = "POST"
             /\ last'.status = HTTP_201_CREATED
             /\ last'.peticion.fecha_finalizacion_propuesta = None )
           => /\ last'.body[1].fecha_finalizacion = None
              /\ last'.body[1].completada = FALSE
        /\ ~EsPeticion =>
              /\ db_tareas' = db_tareas
              /\ \A i \in 1..Len(db_tareas) :
                    ( /\ db_tareas[i].fecha_finalizacion # None
                      /\ db_tareas[i].fecha_finalizacion[1].ts = now' )
                    => /\ model_dump(db_tareas[i], now).completada = FALSE
                       /\ model_dump(db_tareas'[i], now').completada = TRUE ]_vars

\* the list was read when a task with a future fecha_finalizacion read as not
\* completed; nothing was written since, and the same task now reads as completed
C7_Witness ==
    /\ last.op = "GET /tareas/"
    /\ Len(last.body) = Len(db_tareas)
    /\ \E k \in 1..Len(db_tareas) :
          /\ last.body[k].fecha_finalizacion # None
          /\ last.body[k].completada = FALSE
          /\ Tarea(last.body[k]) = db_tareas[k]
          /\ model_dump(db_tareas[k], now).completada = TRUE

\* C8: the list holds exactly the tasks created and not deleted, once each, in
\* the order of creation, and GET /tareas/ returns them in that order; a
\* successful update changes only the entry of its id, in place; a successful
\* delete removes only the entry of its id, and that id is never found again.
C8_ListaEnOrdenDeCreacion ==
    [][ /\ \A i, j \in 1..Len(db_tareas') : i < j => db_tareas'[i].id < db_tareas'[j].id
        /\ IdsDe(db_tareas') = (1..creadas') \ eliminadas'
        /\ \A id \in eliminadas' : BuscarEn(db_tareas', id) = None
        /\ (EsPeticion /\ last'.op = "GET /tareas/") =>
              /\ Len(last'.body) = Len(db_tareas')
              /\ \A k \in 1..Len(db_tareas') : Tarea(last'.body[k]) = db_tareas'[k]
        /\ (EsPeticion /\ last'.op = "PUT" /\ last'.status = HTTP_200_OK) =>
              /\ Len(db_tareas') = Len(db_tareas)
              /\ \A k \in 1..Len(db_tareas) :
                    IF db_tareas[k].id = last'.id
                    THEN db_tareas'[k] = Tarea(last'.body[1])
                    ELSE db_tareas'[k] = db_tareas[k]
        /\ (EsPeticion /\ last'.op = "DELETE" /\ last'.status = HTTP_204_NO_CONTENT) =>
              /\ last'.id \in IdsDe(db_tareas)
              /\ Len(db_tareas') = Len(db_tareas) - 1
              /\ \A k \in 1..Len(db_tareas') :
                    db_tareas'[k] = IF db_tareas[k].id < last'.id
                                    THEN db_tareas[k] ELSE db_tareas[k + 1] ]_vars

\* the first of two tasks was updated and is still the first
C8_Witness ==
    /\ last.op = "PUT"
    /\ last.status = HTTP_200_OK
    /\ Len(db_tareas) = 2
    /\ db_tareas[1].id = last.id
    /\ db_tareas[1] = Tarea(last.body[1])
    /\ eliminadas = {}

\* C6: after a successful update with establecer_completada = true the task's
\* fecha_finalizacion is the nueva_fecha_finalizacion supplied, else the clock
\* if the task had none, else the one it had.
C6_FechaAlCompletar ==
    [][ ( /\ EsPeticion
          /\ last'.op = "PUT"
          /\ last'.status = HTTP_200_OK
          /\ Get(last'.peticion, "establecer_completada") = Some(TRUE) )
        => LET anterior == BuscarEn(db_tareas, last'.id)[1].fecha_finalizacion
               nueva == Get(last'.peticion, "nueva_fecha_finalizacion")
           IN  last'.body[1].fecha_finalizacion =
                   IF nueva # None THEN nueva
                   ELSE IF anterior = None THEN Some(datetime(now, "UTC"))
                   ELSE anterior ]_vars

\* C9: a task created with a fecha_finalizacion_propuesta has that
\* fecha_finalizacion and is completada in the response of its creation.
C9_CreadaComoCompletada ==
    ( /\ last.op = "POST"
      /\ last.status = HTTP_201_CREATED
      /\ last.peticion.fecha_finalizacion_propuesta # None )
    => /\ last.body[1].fecha_finalizacion = last.peticion.fecha_finalizacion_propuesta
       /\ last.body[1].completada = TRUE

\* C10: after a successful update the stored task has a fecha_finalizacion if
\* the body had establecer_completada = true and has none if it had
\* establecer_completada = false.
C10_EstablecerCompletadaDecide ==
    (last.op = "PUT" /\ last.status = HTTP_200_OK) =>
        /\ UltimoEstablecer = Some(TRUE) =>
              BuscarEn(db_tareas, last.id)[1].fecha_finalizacion # None
        /\ UltimoEstablecer = Some(FALSE) =>
              BuscarEn(db_tareas, last.id)[1].fecha_finalizacion = None

====
